---- MODULE Spec2Model ----
(***************************************************************************)
(* Model of ctapipe/io/hdftableio.py: HDF5TableWriter and HDF5TableReader  *)
(* over one HDF5 file.  The writer infers a table schema from the first    *)
(* containers written to a table name and appends one row per write; the   *)
(* reader replays the rows of a table into a target container.             *)
(*                                                                         *)
(* Numbers are integers.  A length of n metres is the quantity (n, "m"),   *)
(* and lengths given in centimetres are whole metres (100, 200, ...),      *)
(* which keeps every unit conversion of the model exact.                   *)
(***************************************************************************)
EXTENDS Integers, Sequences, FiniteSets, TLC

\* --------------------------------------------------------------- bounds
\* calls made on the writer and the reader together (write, exclude,
\* add_column_transform, read)
MaxOps == 3

\* --------------------------------------------------------------- values
\* A field value: kind is the Python class of the value, v its number,
\* unit the unit of a Quantity, dtype the element type of an ndarray.
IntV(n)         == [kind |-> "int",      v |-> n, unit |-> "", dtype |-> ""]
FloatV(n)       == [kind |-> "float",    v |-> n, unit |-> "", dtype |-> ""]
QuantityV(n, u) == [kind |-> "Quantity", v |-> n, unit |-> u,  dtype |-> ""]
TimeV(n)        == [kind |-> "Time",     v |-> n, unit |-> "", dtype |-> ""]
ArrayV(n, d)    == [kind |-> "ndarray",  v |-> n, unit |-> "", dtype |-> d]
StrV            == [kind |-> "str",      v |-> 0, unit |-> "", dtype |-> ""]
NoneV           == [kind |-> "NoneType", v |-> 0, unit |-> "", dtype |-> ""]
\* the outcome of a call that raised
Raised(e)       == [kind |-> "raised",   v |-> 0, unit |-> e,  dtype |-> ""]

IsRaised(val) == val.kind = "raised"

\* the classes of plain numbers: Python's and numpy's
NumericKinds == {"int", "float", "float64", "float32", "int32", "int64"}

\* PYTABLES_TYPE_MAP: type name -> column class
PYTABLES_TYPE_MAP ==
    [n \in {"float", "float64", "float32", "int", "int32", "int64", "bool"} |->
        CASE n = "float"   -> "Float64Col"
          [] n = "float64" -> "Float64Col"
          [] n = "float32" -> "Float32Col"
          [] n = "int"     -> "IntCol"
          [] n = "int32"   -> "Int32Col"
          [] n = "int64"   -> "Int64Col"
          [] n = "bool"    -> "BoolCol"]

\* astropy: the number of centimetres in one `u`; units outside this table
\* are not lengths
UnitScale == [u \in {"m", "cm"} |-> IF u = "m" THEN 100 ELSE 1]

\* Quantity.to(unit).value: the number of `val` expressed in `unit`
ToUnitValue(val, unit) ==
    IF val.kind # "Quantity" THEN Raised("AttributeError")
    ELSE IF val.unit \notin DOMAIN UnitScale \/ unit \notin DOMAIN UnitScale
         THEN Raised("UnitConversionError")
    ELSE FloatV((val.v * UnitScale[val.unit]) \div UnitScale[unit])

\* ------------------------------------------------------------ transforms
\* A transform is named by the function it is and the unit bound to it.
Tr(fn, unit) == [fn |-> fn, unit |-> unit]

tr_convert_and_strip_unit(quantity, unit) == ToUnitValue(quantity, unit)

\* a faulty tr_time_to_float, which returns the Julian date and not the
\* modified one; C15 does not hold of it
tr_time_to_float_jd(thetime) ==
    IF thetime.kind = "Time" THEN FloatV(thetime.v + 2400000)
    ELSE Raised("AttributeError")

\* thetime.mjd
tr_time_to_float(thetime) ==
    IF thetime.kind = "Time" THEN FloatV(thetime.v) ELSE Raised("AttributeError")

\* a faulty tr_add_unit, which scales the number as if it were stored in
\* centimetres; C12 does not hold of it
tr_add_unit_scaled(value, unitname) ==
    IF value.kind \in NumericKinds THEN QuantityV(100 * value.v, unitname)
    ELSE Raised("TypeError")

\* Quantity(value, unitname)
tr_add_unit(value, unitname) ==
    IF value.kind \in NumericKinds THEN QuantityV(value.v, unitname)
    ELSE Raised("TypeError")

\* lambda x: x.value
tr_value(x) ==
    IF x.kind = "Quantity" THEN FloatV(x.v) ELSE Raised("AttributeError")

\* a transform supplied by the caller: adds one to a plain number
tr_user_inc(x) ==
    IF x.kind \in NumericKinds THEN [x EXCEPT !.v = @ + 1]
    ELSE Raised("TypeError")

\* tr(value)
CallTr(tr, value) ==
    CASE tr.fn = "convert_and_strip" -> tr_convert_and_strip_unit(value, tr.unit)
      [] tr.fn = "value"             -> tr_value(value)
      [] tr.fn = "time_to_float"     -> tr_time_to_float(value)
      [] tr.fn = "add_unit"          -> tr_add_unit(value, tr.unit)
      [] tr.fn = "user_inc"          -> tr_user_inc(value)

\* ----------------------------------------------------------- dictionaries
EmptyDict == [k \in {} |-> 0]

\* d[k] = v
Put(d, k, v) == (k :> v) @@ d

\* d.update(e)
Update(d, e) == e @@ d

\* ---------------------------------------------------------------- names
\* the characters of the column and attribute names in use
Chars ==
    [n \in {"x", "y", "raw_x", "t", "a", "s", "z", "x_UNIT", "t_UNIT",
            "author", "CTAPIPE_VERSION"} |->
        CASE n = "x"     -> <<"x">>
          [] n = "x_UNIT" -> <<"x", "_", "U", "N", "I", "T">>
          [] n = "t_UNIT" -> <<"t", "_", "U", "N", "I", "T">>
          [] n = "author" -> <<"a", "u", "t", "h", "o", "r">>
          [] n = "CTAPIPE_VERSION" ->
                <<"C", "T", "A", "P", "I", "P", "E", "_", "V", "E", "R", "S",
                  "I", "O", "N">>
          [] n = "y"     -> <<"y">>
          [] n = "raw_x" -> <<"r", "a", "w", "_", "x">>
          [] n = "t"     -> <<"t">>
          [] n = "a"     -> <<"a">>
          [] n = "s"     -> <<"s">>
          [] n = "z"     -> <<"z">>]

\* the name spelled by the characters cs
FromChars(cs) == CHOOSE n \in DOMAIN Chars : Chars[n] = cs

\* '{}_UNIT'.format(col_name)
UnitAttr(col_name) == FromChars(Chars[col_name] \o <<"_", "U", "N", "I", "T">>)

\* attr.endswith("_UNIT")
EndsWithUnit(attr) ==
    /\ Len(Chars[attr]) >= 5
    /\ SubSeq(Chars[attr], Len(Chars[attr]) - 4, Len(Chars[attr]))
          = <<"_", "U", "N", "I", "T">>

\* attr[:-5]
DropUnit(attr) == FromChars(SubSeq(Chars[attr], 1, Len(Chars[attr]) - 5))

\* re.compile(pattern): a sequence of literal characters and ".*"
Compile ==
    [p \in {"raw_.*", "x"} |->
        IF p = "x" THEN <<"x">> ELSE <<"r", "a", "w", "_", ".*">>]

Patterns == DOMAIN Compile

\* the compiled pattern p matches s from its first character on
RECURSIVE MatchHere(_, _)
MatchHere(p, s) ==
    IF p = <<>> THEN TRUE
    ELSE IF Head(p) = ".*"
         THEN \E k \in 0..Len(s) : MatchHere(Tail(p), SubSeq(s, k + 1, Len(s)))
    ELSE s # <<>> /\ Head(s) = Head(p) /\ MatchHere(Tail(p), Tail(s))

\* pattern.match(col_name): anchored at the start of the name
ReSearch(pattern, col_name) ==
    \E k \in 0..Len(Chars[col_name]) :
        MatchHere(Compile[pattern],
                  SubSeq(Chars[col_name], k + 1, Len(Chars[col_name])))

ReMatch(pattern, col_name) == MatchHere(Compile[pattern], Chars[col_name])

\* ------------------------------------------------------------ containers
\* A container: its class, the names of its fields in order, the value and
\* the required unit ("None" when the Field declares none) of each field,
\* and its meta dictionary.
Container(cls, fields, vals, units, meta) ==
    [cls |-> cls, fields |-> fields, vals |-> vals, units |-> units,
     meta |-> meta]

EvUnits  == [f \in {"x", "y"} |-> IF f = "x" THEN "m" ELSE "None"]
EvNUnits == [f \in {"x", "y"} |-> "None"]

EV1 == Container("Ev", <<"x", "y">>,
                 ("x" :> QuantityV(2, "m")) @@ ("y" :> IntV(7)),
                 EvUnits, EmptyDict)
EV2 == Container("Ev", <<"x", "y">>,
                 ("x" :> QuantityV(100, "cm")) @@ ("y" :> IntV(8)),
                 EvUnits, ("author" :> "me"))
EVN1 == Container("EvN", <<"x", "y">>,
                  ("x" :> QuantityV(100, "cm")) @@ ("y" :> IntV(9)),
                  EvNUnits, EmptyDict)
EVN2 == Container("EvN", <<"x", "y">>,
                  ("x" :> QuantityV(2, "m")) @@ ("y" :> IntV(6)),
                  EvNUnits, EmptyDict)
RAW == Container("Raw", <<"raw_x", "t", "s">>,
                 ("raw_x" :> IntV(5)) @@ ("t" :> TimeV(50000)) @@ ("s" :> StrV),
                 [f \in {"raw_x", "t", "s"} |-> "None"], EmptyDict)
ARR1 == Container("Arr", <<"y", "a">>,
                  ("y" :> IntV(3)) @@ ("a" :> ArrayV(4, "float64")),
                  [f \in {"y", "a"} |-> "None"], EmptyDict)
ARR2 == Container("Arr", <<"y", "a">>,
                  ("y" :> IntV(3)) @@ ("a" :> ArrayV(4, "uint16")),
                  [f \in {"y", "a"} |-> "None"], EmptyDict)
META == Container("Meta", <<"y">>, ("y" :> IntV(1)),
                  [f \in {"y"} |-> "None"],
                  ("x_UNIT" :> "km") @@ ("CTAPIPE_VERSION" :> "0"))
STAMP == Container("Stamp", <<"t">>, ("t" :> TimeV(50001)),
                   [f \in {"t"} |-> "None"], ("t_UNIT" :> "d"))

\* the `containers` arguments given to write()
ContainerLists ==
    {<<EV1>>, <<EV2>>, <<EVN1>>, <<EVN2>>, <<RAW>>, <<ARR1>>, <<ARR2>>,
     <<EV1, META>>}

\* the names under which tables are written and read
TableNames == {"A", "B"}

\* the calls write(table_name, containers) made: every list of containers
\* goes to table A, and three lists go to a second table B
WriteCalls ==
    { <<"A", cs>> : cs \in ContainerLists }
        \cup { <<"B", <<EV1>>>>, <<"B", <<ARR2>>>>, <<"B", <<STAMP>>>> }

\* ctapipe.__version__
CTAPIPE_VERSION == "ctapipe.__version__"

\* ----------------------------------------------------------------- state
VARIABLES
    \* HDF5TableWriter
    wScope,         \* "with": inside its with block; "exited"; "deleted"
    w_isopen,       \* self._h5file.isopen
    w_schemas,      \* self._schemas: table name -> columns of the Schema
    w_tables,       \* self._tables: the table names holding a table handle
    w_transforms,   \* self._transforms: table name -> column name -> transform
    w_exclusions,   \* self._exclusions: table name -> compiled patterns
    \* the HDF5 file: table name -> [cols, attrs, rows]
    h5file,
    \* HDF5TableReader
    rScope,         \* "none": not constructed; "with"; "exited"; "deleted"
    r_isopen,       \* self._h5file.isopen
    r_tables,       \* self._tables: the table names holding a table handle
    r_cols_to_read, \* self._cols_to_read: table name -> column names
    r_transforms,   \* self._transforms: table name -> column name -> transform
    \* the generator returned by the last read() and the container it fills
    gen,            \* [pc, table, row_count]
    target,         \* [cls, fields, vals, meta]
    yielded,        \* the field values of the container at each yield
    \* the calls made so far
    nOps,           \* write, exclude, add_column_transform and read calls
    lastOp,         \* the last call: [op, table, col, tr, args, err]
    wUser,          \* table name -> column name -> the transform the caller
                    \* registered last on the writer
    rUser,          \* the same on the reader
    nSchema,        \* table name -> runs of _create_hdf5_table_schema
    nWrites,        \* table name -> write calls
    nOk,            \* table name -> write calls that returned
    written         \* table name -> the containers of each such call

wvars == <<wScope, w_isopen, w_schemas, w_tables, w_transforms, w_exclusions>>
rvars == <<rScope, r_isopen, r_tables, r_cols_to_read, r_transforms>>
gvars == <<gen, target, yielded>>
cvars == <<nSchema, nWrites, nOk, written>>
uvars == <<wUser, rUser>>
vars  == <<wvars, h5file, rvars, gvars, nOps, lastOp, uvars, cvars>>

\* a call: its name, its table_name, col_name (exc_type for __exit__),
\* transform and containers arguments, and the error it raised
Op(op, table, col, tr, args, err) ==
    [op |-> op, table |-> table, col |-> col, tr |-> tr, args |-> args,
     err |-> err]

NoTr == Tr("", "")

\* --------------------------------------------------------- the HDF5 file
\* numpy dtype of the cells of a column class
ColDtype ==
    [c \in {"Float64Col", "Float32Col", "IntCol", "Int32Col", "Int64Col",
            "BoolCol"} |->
        CASE c = "Float64Col" -> "float64"
          [] c = "Float32Col" -> "float32"
          [] c = "IntCol"     -> "int32"
          [] c = "Int32Col"   -> "int32"
          [] c = "Int64Col"   -> "int64"
          [] c = "BoolCol"    -> "bool"]

\* a column of a table description: coltype() or coltype(shape=shape)
Col(coltype, shape) == [type |-> coltype, shape |-> shape]

\* the value a new row holds in a column before it is assigned
ColDefault(col) ==
    IF col.shape = "()"
    THEN [kind |-> ColDtype[col.type], v |-> 0, unit |-> "", dtype |-> ""]
    ELSE ArrayV(0, ColDtype[col.type])

\* row[colname] = value: the cell takes the number, in the column's dtype
StoreCell(col, value) ==
    IF col.shape = "()"
    THEN IF value.kind \in NumericKinds \cup {"Quantity"}
         THEN [kind |-> ColDtype[col.type], v |-> value.v, unit |-> "",
               dtype |-> ""]
         ELSE Raised("TypeError")
    ELSE IF value.kind = "ndarray"
         THEN ArrayV(value.v, ColDtype[col.type])
         ELSE Raised("TypeError")

\* a table of the file as create_table leaves it
NewTable(cols) == [cols |-> cols, attrs |-> EmptyDict, rows |-> <<>>]

\* ------------------------------------------------------------ TableWriter
\* TableWriter.exclude: the list of patterns of table_name after the call
exclude(table_name, pattern) == Append(w_exclusions[table_name], pattern)

_is_column_excluded(table_name, col_name) ==
    \E i \in 1..Len(w_exclusions[table_name]) :
        ReMatch(w_exclusions[table_name][i], col_name)

\* a faulty add_column_transform, which keeps the transform a column
\* already has; C7 does not hold of it
add_column_transform_keep(transforms, table_name, col_name, transform) ==
    [transforms EXCEPT ![table_name] = @ @@ (col_name :> transform)]

\* add_column_transform on a registry: the registry after the call
add_column_transform(transforms, table_name, col_name, transform) ==
    [transforms EXCEPT ![table_name] = Put(@, col_name, transform)]

\* _apply_col_transform on a registry
_apply_col_transform(transforms, table_name, col_name, value) ==
    IF col_name \in DOMAIN transforms[table_name]
    THEN CallTr(transforms[table_name][col_name], value)
    ELSE value

\* --------------------------------------------------------- HDF5TableWriter
\* The part of the writer and of the file that write() changes.
WState == [schemas |-> w_schemas, tables |-> w_tables,
           transforms |-> w_transforms, file |-> h5file]

\* What _create_hdf5_table_schema has built so far: the columns of Schema,
\* the meta dictionary, the registry of transforms, and the error raised
\* ("none" while none is).
SchemaStart == [columns |-> EmptyDict, meta |-> EmptyDict,
                transforms |-> w_transforms, err |-> "none"]

\* one turn of the loop over container.items()
SchemaField(st, table_name, container, col_name) ==
    LET value    == container.vals[col_name]
        req_unit == container.units[col_name]
        isq      == value.kind = "Quantity"
        tr       == IF req_unit # "None"
                    THEN Tr("convert_and_strip", req_unit)
                    ELSE Tr("value", "")
        unitstr  == IF req_unit # "None" THEN req_unit ELSE value.unit
        value1   == IF isq THEN CallTr(tr, value) ELSE value
        st1      == IF isq
                    THEN [st EXCEPT
                            !.meta = Put(@, UnitAttr(col_name), unitstr),
                            !.transforms = add_column_transform(
                                               @, table_name, col_name, tr)]
                    ELSE st
    IN  IF _is_column_excluded(table_name, col_name) THEN st
        ELSE IF IsRaised(value1) THEN [st EXCEPT !.err = value1.unit]
        ELSE IF value1.kind = "ndarray"
                /\ value1.dtype \notin DOMAIN PYTABLES_TYPE_MAP
             THEN [st1 EXCEPT !.err = "KeyError"]
        ELSE LET st2 == IF value1.kind = "ndarray"
                        THEN [st1 EXCEPT !.columns =
                                Put(@, col_name,
                                    Col(PYTABLES_TYPE_MAP[value1.dtype], "(n,)"))]
                        ELSE st1
             IN  IF value1.kind = "Time"
                 THEN [st2 EXCEPT
                         !.columns = Put(@, col_name, Col("Float64Col", "()")),
                         !.transforms = add_column_transform(
                             @, table_name, col_name, Tr("time_to_float", ""))]
                 ELSE IF value1.kind \in DOMAIN PYTABLES_TYPE_MAP
                 THEN [st2 EXCEPT !.columns =
                         Put(@, col_name,
                             Col(PYTABLES_TYPE_MAP[value1.kind], "()"))]
                 ELSE st2

\* the loop over the fields of one container, from field i on
RECURSIVE SchemaFields(_, _, _, _)
SchemaFields(st, table_name, container, i) ==
    IF i > Len(container.fields) \/ st.err # "none" THEN st
    ELSE SchemaFields(
             SchemaField(st, table_name, container, container.fields[i]),
             table_name, container, i + 1)

\* the loop over the containers, from container k on
RECURSIVE SchemaContainers(_, _, _, _)
SchemaContainers(st, table_name, containers, k) ==
    IF k > Len(containers) \/ st.err # "none" THEN st
    ELSE SchemaContainers(
             SchemaFields(st, table_name, containers[k], 1),
             table_name, containers, k + 1)

\* the statements after the loops: meta['CTAPIPE_VERSION'] = ...
SchemaEnd(st) ==
    IF st.err # "none" THEN st
    ELSE [st EXCEPT !.meta = Put(@, "CTAPIPE_VERSION", CTAPIPE_VERSION)]

\* _create_hdf5_table_schema: what it built; when it did not raise, the
\* Schema is registered by the caller of this operator and the returned
\* meta holds the version
_create_hdf5_table_schema(table_name, containers) ==
    SchemaEnd(SchemaContainers(SchemaStart, table_name, containers, 1))

\* for container in containers: meta.update(container.meta)
RECURSIVE UpdateMeta(_, _, _)
UpdateMeta(meta, containers, k) ==
    IF k > Len(containers) THEN meta
    ELSE UpdateMeta(Update(meta, containers[k].meta), containers, k + 1)

\* _setup_new_table after its call of _create_hdf5_table_schema, which
\* left st: the state it leaves and the error it raised.  The transforms
\* registered and the Schema registered before a raise stay.
CreateTable(ws, table_name, containers, st) ==
    LET meta == UpdateMeta(st.meta, containers, 1)
        ws1  == [ws EXCEPT !.transforms = st.transforms]
        ws2  == [ws1 EXCEPT !.schemas = Put(@, table_name, st.columns)]
    IN  IF st.err # "none" THEN [ws |-> ws1, err |-> st.err]
        ELSE IF ~w_isopen THEN [ws |-> ws2, err |-> "ClosedFileError"]
        ELSE [ws |-> [ws2 EXCEPT
                        !.file = Put(@, table_name,
                                     [NewTable(st.columns) EXCEPT !.attrs = meta]),
                        !.tables = @ \cup {table_name}],
              err |-> "none"]

\* _setup_new_table: the state it leaves and the error it raised
_setup_new_table(ws, table_name, containers) ==
    CreateTable(ws, table_name, containers,
                _create_hdf5_table_schema(table_name, containers))

\* a faulty turn of the loop of _append_row, which stores the value of the
\* field as it is, without the transform of the column; C16 does not hold
\* of it
RowField_raw(row, ws, table_name, container, colname) ==
    LET cols == ws.file[table_name].cols
        cell == StoreCell(cols[colname], container.vals[colname])
    IN  IF colname \notin DOMAIN cols THEN row
        ELSE IF IsRaised(cell) THEN [row EXCEPT !.err = cell.unit]
        ELSE [row EXCEPT !.cells = Put(@, colname, cell)]

\* What _append_row has put in the row so far, and the error raised.
\* one turn of the loop over the keys of a container that are columns
RowField(row, ws, table_name, container, colname) ==
    LET cols  == ws.file[table_name].cols
        value == _apply_col_transform(ws.transforms, table_name, colname,
                                      container.vals[colname])
        cell  == IF IsRaised(value) THEN value
                 ELSE StoreCell(cols[colname], value)
    IN  IF colname \notin DOMAIN cols THEN row
        ELSE IF IsRaised(cell) THEN [row EXCEPT !.err = cell.unit]
        ELSE [row EXCEPT !.cells = Put(@, colname, cell)]

RECURSIVE RowFields(_, _, _, _, _)
RowFields(row, ws, table_name, container, i) ==
    IF i > Len(container.fields) \/ row.err # "none" THEN row
    ELSE RowFields(
             RowField(row, ws, table_name, container, container.fields[i]),
             ws, table_name, container, i + 1)

RECURSIVE RowContainers(_, _, _, _, _)
RowContainers(row, ws, table_name, containers, k) ==
    IF k > Len(containers) \/ row.err # "none" THEN row
    ELSE RowContainers(
             RowFields(row, ws, table_name, containers[k], 1),
             ws, table_name, containers, k + 1)

\* table.row: a row holding the default of every column
NewRow(cols) == [cells |-> [c \in DOMAIN cols |-> ColDefault(cols[c])],
                 err |-> "none"]

\* a faulty row.append(), which appends the row to every table of the
\* file; C17 does not hold of it
RowAppend_all(ws, table_name, row) ==
    IF row.err # "none" THEN [ws |-> ws, err |-> row.err]
    ELSE [ws |-> [ws EXCEPT !.file = [b \in DOMAIN @ |->
                                        [@[b] EXCEPT !.rows =
                                            Append(@, row.cells)]]],
          err |-> "none"]

\* row.append(), unless filling the row raised
RowAppend(ws, table_name, row) ==
    IF row.err # "none" THEN [ws |-> ws, err |-> row.err]
    ELSE [ws |-> [ws EXCEPT !.file[table_name].rows = Append(@, row.cells)],
          err |-> "none"]

\* _append_row: the state it leaves and the error it raised
_append_row(ws, table_name, containers) ==
    IF table_name \notin ws.tables THEN [ws |-> ws, err |-> "KeyError"]
    ELSE IF ~w_isopen THEN [ws |-> ws, err |-> "ClosedNodeError"]
    ELSE RowAppend(ws, table_name,
                   RowContainers(NewRow(ws.file[table_name].cols), ws,
                                 table_name, containers, 1))

\* what write() returns to the model: the state a call left, the error it
\* raised, and whether _setup_new_table ran
WriteResult(r, setup) == [ws |-> r.ws, err |-> r.err, setup |-> setup]

\* write() after its call of _setup_new_table, which left set
WriteAppend(set, table_name, containers) ==
    IF set.err # "none" THEN WriteResult(set, TRUE)
    ELSE WriteResult(_append_row(set.ws, table_name, containers), TRUE)

\* a faulty write, which only sets a new table up and appends no row to
\* it; C2 does not hold of it
write_setup_only(ws, table_name, containers) ==
    IF table_name \notin DOMAIN ws.schemas
    THEN WriteResult(_setup_new_table(ws, table_name, containers), TRUE)
    ELSE WriteResult(_append_row(ws, table_name, containers), FALSE)

\* HDF5TableWriter.write: the state it leaves, the error it raised, and
\* whether it ran _setup_new_table
write(ws, table_name, containers) ==
    IF table_name \notin DOMAIN ws.schemas
    THEN WriteAppend(_setup_new_table(ws, table_name, containers),
                     table_name, containers)
    ELSE WriteResult(_append_row(ws, table_name, containers), FALSE)

\* a faulty close, which raises on a file already closed; C4 does not hold
\* of it
close_once(isopen) ==
    [isopen |-> FALSE, err |-> IF isopen THEN "none" ELSE "ClosedFileError"]

\* File.close() of PyTables as HDF5TableWriter.close and
\* HDF5TableReader.close call it: it returns at once on a closed file.
\* The result is the file's isopen and the error raised.
close(isopen) == [isopen |-> FALSE, err |-> "none"]

\* a faulty __exit__, which closes only when the block raised nothing; C5
\* does not hold of it
exit_clean_only(isopen, exc_type) ==
    IF exc_type = "None" THEN [isopen |-> FALSE, err |-> "none"]
    ELSE [isopen |-> isopen, err |-> "none"]

\* __exit__(exc_type, exc_val, exc_tb) of TableWriter and TableReader
exit(isopen, exc_type) == close(isopen)

\* __del__ of TableWriter and TableReader
del(isopen) == close(isopen)

\* ------------------------------------------------------------------ Init
Init ==
    /\ wScope = "with"
    /\ w_isopen = TRUE
    /\ w_schemas = EmptyDict
    /\ w_tables = {}
    /\ w_transforms = [t \in TableNames |-> EmptyDict]
    /\ w_exclusions = [t \in TableNames |-> <<>>]
    /\ h5file = EmptyDict
    /\ rScope = "none"
    /\ r_isopen = FALSE
    /\ r_tables = {}
    /\ r_cols_to_read = [t \in TableNames |-> <<>>]
    /\ r_transforms = [t \in TableNames |-> EmptyDict]
    /\ gen = [pc |-> "none", table |-> "", row_count |-> 0]
    /\ target = Container("", <<>>, EmptyDict, EmptyDict, EmptyDict)
    /\ yielded = <<>>
    /\ nOps = 0
    /\ lastOp = Op("init", "", "", NoTr, <<>>, "none")
    /\ wUser = [t \in TableNames |-> EmptyDict]
    /\ rUser = [t \in TableNames |-> EmptyDict]
    /\ nSchema = [t \in TableNames |-> 0]
    /\ nWrites = [t \in TableNames |-> 0]
    /\ nOk = [t \in TableNames |-> 0]
    /\ written = [t \in TableNames |-> <<>>]

\* --------------------------------------------------------- writer actions
\* The writer is used until the reader is constructed: one file has one
\* writer and no reader beside it.
WriterUsable == wScope # "deleted" /\ rScope = "none"

\* the calls add_column_transform(table_name, col_name, transform) a
\* caller makes on the writer
WriterUserTransforms ==
    { <<"A", "x", Tr("convert_and_strip", "cm")>>,
      <<"A", "y", Tr("user_inc", "")>>,
      <<"B", "x", Tr("convert_and_strip", "cm")>> }

Write(table_name, containers) ==
    /\ WriterUsable
    /\ nOps < MaxOps
    /\ \E r \in {write(WState, table_name, containers)} :
           /\ w_schemas' = r.ws.schemas
           /\ w_tables' = r.ws.tables
           /\ w_transforms' = r.ws.transforms
           /\ h5file' = r.ws.file
           /\ lastOp' = Op("write", table_name, "", NoTr, containers, r.err)
           /\ nSchema' = [nSchema EXCEPT ![table_name] =
                            IF r.setup THEN @ + 1 ELSE @]
           /\ nWrites' = [nWrites EXCEPT ![table_name] = @ + 1]
           /\ nOk' = [nOk EXCEPT ![table_name] =
                        IF r.err = "none" THEN @ + 1 ELSE @]
           /\ written' = [written EXCEPT ![table_name] =
                            IF r.err = "none" THEN Append(@, containers)
                            ELSE @]
    /\ nOps' = nOps + 1
    /\ UNCHANGED <<uvars, wScope, w_isopen, w_exclusions, rvars, gvars>>

Exclude(table_name, pattern) ==
    /\ WriterUsable
    /\ nOps < MaxOps
    /\ w_exclusions' = [w_exclusions EXCEPT ![table_name] =
                           exclude(table_name, pattern)]
    /\ lastOp' = Op("exclude", table_name, pattern, NoTr, <<>>, "none")
    /\ nOps' = nOps + 1
    /\ UNCHANGED <<uvars, wScope, w_isopen, w_schemas, w_tables, w_transforms,
                   h5file, rvars, gvars, cvars>>

WriterAddColumnTransform(table_name, col_name, transform) ==
    /\ WriterUsable
    /\ nOps < MaxOps
    /\ w_transforms' = add_column_transform(w_transforms, table_name,
                                            col_name, transform)
    /\ lastOp' = Op("w_add_column_transform", table_name, col_name,
                    transform, <<>>, "none")
    /\ wUser' = [wUser EXCEPT ![table_name] = Put(@, col_name, transform)]
    /\ UNCHANGED rUser
    /\ nOps' = nOps + 1
    /\ UNCHANGED <<wScope, w_isopen, w_schemas, w_tables, w_exclusions,
                   h5file, rvars, gvars, cvars>>

WriterClose ==
    /\ WriterUsable
    /\ LET r == close(w_isopen)
       IN  /\ w_isopen' = r.isopen
           /\ lastOp' = Op("w_close", "", "", NoTr, <<>>, r.err)
    /\ UNCHANGED <<uvars, wScope, w_schemas, w_tables, w_transforms, w_exclusions,
                   h5file, rvars, gvars, nOps, cvars>>

\* leaving the with block, normally or with the error of the last call
WriterExit ==
    /\ WriterUsable
    /\ wScope = "with"
    /\ \E exc_type \in {"None", lastOp.err} \ {"none"} :
         LET r == exit(w_isopen, exc_type)
         IN  /\ w_isopen' = r.isopen
             /\ lastOp' = Op("w_exit", "", exc_type, NoTr, <<>>, r.err)
    /\ wScope' = "exited"
    /\ UNCHANGED <<uvars, w_schemas, w_tables, w_transforms, w_exclusions,
                   h5file, rvars, gvars, nOps, cvars>>

\* the writer is destroyed
WriterDel ==
    /\ WriterUsable
    /\ LET r == del(w_isopen)
       IN  /\ w_isopen' = r.isopen
           /\ lastOp' = Op("w_del", "", "", NoTr, <<>>, r.err)
    /\ wScope' = "deleted"
    /\ UNCHANGED <<uvars, w_schemas, w_tables, w_transforms, w_exclusions,
                   h5file, rvars, gvars, nOps, cvars>>

WriterNext ==
    \/ \E w \in WriteCalls : Write(w[1], w[2])
    \/ \E t \in TableNames, p \in Patterns : Exclude(t, p)
    \/ \E ct \in WriterUserTransforms :
           WriterAddColumnTransform(ct[1], ct[2], ct[3])
    \/ WriterClose
    \/ WriterExit
    \/ WriterDel

\* --------------------------------------------------------- HDF5TableReader
\* the place of a column name in the order of tab.colnames
NameRank ==
    [n \in {"a", "raw_x", "s", "t", "x", "y", "z"} |->
        CASE n = "a" -> 1 [] n = "raw_x" -> 2 [] n = "s" -> 3 [] n = "t" -> 4
          [] n = "x" -> 5 [] n = "y" -> 6 [] n = "z" -> 7]

\* the names of the set S in the order of their ranks
RECURSIVE SortedNames(_)
SortedNames(S) ==
    IF S = {} THEN <<>>
    ELSE LET n == CHOOSE m \in S : \A k \in S : NameRank[m] <= NameRank[k]
         IN  <<n>> \o SortedNames(S \ {n})

\* tab.colnames
ColNames(tab) == SortedNames(DOMAIN tab.cols)

\* colname in container.fields
InFields(container, colname) ==
    \E i \in 1..Len(container.fields) : container.fields[i] = colname

\* What container[key] = value does when key is no field of the container:
\* a record that is a plain mapping takes the key, one with a fixed set of
\* fields raises AttributeError.
SetItemKinds == {"mapping", "fixed"}

\* container[key] = value: the container after it and the error raised
ContainerSetItem(container, key, value, setitem) ==
    IF InFields(container, key) \/ setitem = "mapping"
    THEN [container |-> [container EXCEPT !.vals = Put(@, key, value)],
          err |-> "none"]
    ELSE [container |-> container, err |-> "AttributeError"]

\* The part of the reader that a step of the generator of read() changes,
\* with the error raised ("none" while none is).
RState == [tables |-> r_tables, cols_to_read |-> r_cols_to_read,
           transforms |-> r_transforms, gen |-> gen, target |-> target,
           yielded |-> yielded, err |-> "none"]

\* _map_table_to_container
_map_table_to_container(rs, table_name) ==
    LET tab  == h5file[table_name]
        cols == SelectSeq(ColNames(tab), LAMBDA c : InFields(rs.target, c))
    IN  [rs EXCEPT !.cols_to_read[table_name] = @ \o cols,
                   !.target.meta = Update(@, tab.attrs)]

\* the loop of _map_transforms_from_table_header over the attributes attrs
RECURSIVE MapTransforms(_, _, _, _)
MapTransforms(transforms, table_name, tab, attrs) ==
    IF attrs = {} THEN transforms
    ELSE LET attr == CHOOSE a \in attrs : TRUE
             next == IF EndsWithUnit(attr)
                     THEN add_column_transform(
                              transforms, table_name, DropUnit(attr),
                              Tr("add_unit", tab.attrs[attr]))
                     ELSE transforms
         IN  MapTransforms(next, table_name, tab, attrs \ {attr})

_map_transforms_from_table_header(rs, table_name) ==
    [rs EXCEPT !.transforms =
        MapTransforms(@, table_name, h5file[table_name],
                      DOMAIN h5file[table_name].attrs)]

\* _setup_table
_setup_table(rs, table_name) ==
    IF ~r_isopen THEN [rs EXCEPT !.err = "ClosedFileError"]
    ELSE IF table_name \notin DOMAIN h5file
    THEN [rs EXCEPT !.err = "NoSuchNodeError"]
    ELSE _map_transforms_from_table_header(
             _map_table_to_container(
                 [rs EXCEPT !.tables = @ \cup {table_name}], table_name),
             table_name)

\* the reader after the item assignment that left `set`
SetTarget(rs, set) == [rs EXCEPT !.target = set.container, !.err = set.err]

\* the loop over self._cols_to_read[table_name], from column i on; one
\* turn of it is container[colname] = self._apply_col_transform(...)
AssignCol(rs, colname, value, setitem) ==
    IF IsRaised(value) THEN [rs EXCEPT !.err = value.unit]
    ELSE SetTarget(rs, ContainerSetItem(rs.target, colname, value, setitem))

RECURSIVE AssignCols(_, _, _, _, _)
AssignCols(rs, table_name, row, i, setitem) ==
    IF i > Len(rs.cols_to_read[table_name]) \/ rs.err # "none" THEN rs
    ELSE AssignCols(
             AssignCol(rs, rs.cols_to_read[table_name][i],
                       _apply_col_transform(
                           rs.transforms, table_name,
                           rs.cols_to_read[table_name][i],
                           row[rs.cols_to_read[table_name][i]]),
                       setitem),
             table_name, row, i + 1, setitem)

\* yield container, unless filling it raised
Yield(as) ==
    IF as.err # "none" THEN [as EXCEPT !.gen.pc = "raised"]
    ELSE [as EXCEPT !.gen.pc = "yielded",
                    !.yielded = Append(@, as.target.vals)]

\* one turn of the while loop of read(), up to its yield or its return
ReadLoop(rs, setitem) ==
    LET table_name == rs.gen.table
        rows       == h5file[table_name].rows
        row_count  == rs.gen.row_count
    IN  IF rs.err # "none" THEN [rs EXCEPT !.gen.pc = "raised"]
        ELSE IF ~r_isopen
        THEN [rs EXCEPT !.err = "ClosedNodeError", !.gen.pc = "raised"]
        ELSE IF row_count >= Len(rows) THEN [rs EXCEPT !.gen.pc = "done"]
        ELSE Yield(AssignCols(rs, table_name, rows[row_count + 1], 1,
                              setitem))

\* read(): the generator runs from where it stands to its next yield, its
\* return or the error it raises
read(rs, setitem) ==
    IF rs.gen.pc = "created"
    THEN ReadLoop(IF rs.gen.table \notin rs.tables
                  THEN _setup_table(rs, rs.gen.table)
                  ELSE rs,
                  setitem)
    ELSE ReadLoop([rs EXCEPT !.gen.row_count = @ + 1], setitem)

\* --------------------------------------------------------- reader actions
\* the containers given to read(): a new instance of a class, every field
\* at its default
Targets ==
    { Container("Ev", <<"x", "y">>, [f \in {"x", "y"} |-> NoneV], EvUnits,
                EmptyDict),
      Container("Tyz", <<"t", "y", "z">>, [f \in {"t", "y", "z"} |-> NoneV],
                [f \in {"t", "y", "z"} |-> "None"], EmptyDict) }

\* the calls add_column_transform(table_name, col_name, transform) a
\* caller makes on the reader
ReaderUserTransforms ==
    { <<"A", "x", Tr("user_inc", "")>>, <<"A", "y", Tr("user_inc", "")>> }

ReaderUsable == rScope \in {"with", "exited"}

\* HDF5TableReader(filename), once the writer has closed the file and
\* while calls remain to be made on the reader
ReaderOpen ==
    /\ rScope = "none"
    /\ ~w_isopen
    /\ nOps < MaxOps
    /\ rScope' = "with"
    /\ r_isopen' = TRUE
    /\ lastOp' = Op("r_open", "", "", NoTr, <<>>, "none")
    /\ UNCHANGED <<uvars, wvars, h5file, r_tables, r_cols_to_read, r_transforms,
                   gvars, nOps, cvars>>

ReaderAddColumnTransform(table_name, col_name, transform) ==
    /\ ReaderUsable
    /\ nOps < MaxOps
    /\ r_transforms' = add_column_transform(r_transforms, table_name,
                                            col_name, transform)
    /\ lastOp' = Op("r_add_column_transform", table_name, col_name,
                    transform, <<>>, "none")
    /\ rUser' = [rUser EXCEPT ![table_name] = Put(@, col_name, transform)]
    /\ UNCHANGED wUser
    /\ nOps' = nOps + 1
    /\ UNCHANGED <<wvars, h5file, rScope, r_isopen, r_tables,
                   r_cols_to_read, gvars, cvars>>

\* read(table_name, container): a generator that has not started
Read(table_name, container) ==
    /\ ReaderUsable
    /\ nOps < MaxOps
    /\ gen' = [pc |-> "created", table |-> table_name, row_count |-> 0]
    /\ target' = container
    /\ yielded' = <<>>
    /\ lastOp' = Op("read", table_name, "", NoTr, <<container>>, "none")
    /\ nOps' = nOps + 1
    /\ UNCHANGED <<uvars, wvars, h5file, rvars, cvars>>

\* next() on the generator
ReadNext ==
    /\ ReaderUsable
    /\ gen.pc \in {"created", "yielded"}
    /\ \E setitem \in SetItemKinds : \E r \in {read(RState, setitem)} :
           /\ r_tables' = r.tables
           /\ r_cols_to_read' = r.cols_to_read
           /\ r_transforms' = r.transforms
           /\ gen' = r.gen
           /\ target' = r.target
           /\ yielded' = r.yielded
           /\ lastOp' = Op("next", gen.table, "", NoTr, <<>>, r.err)
    /\ UNCHANGED <<uvars, wvars, h5file, rScope, r_isopen, nOps, cvars>>

ReaderClose ==
    /\ ReaderUsable
    /\ LET r == close(r_isopen)
       IN  /\ r_isopen' = r.isopen
           /\ lastOp' = Op("r_close", "", "", NoTr, <<>>, r.err)
    /\ UNCHANGED <<uvars, wvars, h5file, rScope, r_tables, r_cols_to_read,
                   r_transforms, gvars, nOps, cvars>>

ReaderExit ==
    /\ rScope = "with"
    /\ \E exc_type \in {"None", lastOp.err} \ {"none"} :
         LET r == exit(r_isopen, exc_type)
         IN  /\ r_isopen' = r.isopen
             /\ lastOp' = Op("r_exit", "", exc_type, NoTr, <<>>, r.err)
    /\ rScope' = "exited"
    /\ UNCHANGED <<uvars, wvars, h5file, r_tables, r_cols_to_read, r_transforms,
                   gvars, nOps, cvars>>

ReaderDel ==
    /\ ReaderUsable
    /\ LET r == del(r_isopen)
       IN  /\ r_isopen' = r.isopen
           /\ lastOp' = Op("r_del", "", "", NoTr, <<>>, r.err)
    /\ rScope' = "deleted"
    /\ UNCHANGED <<uvars, wvars, h5file, r_tables, r_cols_to_read, r_transforms,
                   gvars, nOps, cvars>>

ReaderNext ==
    \/ ReaderOpen
    \/ \E ct \in ReaderUserTransforms :
           ReaderAddColumnTransform(ct[1], ct[2], ct[3])
    \/ \E t \in TableNames, c \in Targets : Read(t, c)
    \/ ReadNext
    \/ ReaderClose
    \/ ReaderExit
    \/ ReaderDel

Next == WriterNext \/ ReaderNext

Spec == Init /\ [][Next]_vars

\* ---------------------------------------------------------------- claims
\* the rows of table t in the file
Rows(t) == IF t \in DOMAIN h5file THEN h5file[t].rows ELSE <<>>

\* the header attributes of table t in the file
Attrs(t) == IF t \in DOMAIN h5file THEN h5file[t].attrs ELSE EmptyDict

\* the elements of a sequence
Range(seq) == { seq[i] : i \in 1..Len(seq) }

\* the step is a call of write(), which raised err
WriteStep == nOps' = nOps + 1 /\ lastOp'.op = "write"

\* the step is a next() on the generator of read()
NextStep == lastOp'.op = "next" /\ gen' # gen

\* some values a transform may be given
SampleValues == { IntV(1), FloatV(3), QuantityV(2, "m"), TimeV(5) }

\* C1: on an open writer, _create_hdf5_table_schema has run for a table
\* name exactly once as soon as write was called for that name, whatever
\* the number of write calls: no write after the first runs it again.
C1_SchemaBuiltOnceOnFirstWrite ==
    w_isopen =>
        \A t \in TableNames : nSchema[t] = IF nWrites[t] = 0 THEN 0 ELSE 1

\* C2: the number of rows of every table is the number of write calls for
\* that name that returned; a write that returns appends one row behind the
\* rows the table held, and leaves the rows of every other table alone; a
\* write that raises appends nothing.
C2_OneRowPerWrite ==
    /\ [](\A t \in TableNames : Len(Rows(t)) = nOk[t])
    /\ [][WriteStep =>
            \A t \in TableNames :
                IF t = lastOp'.table /\ lastOp'.err = "none"
                THEN /\ Len(Rows(t)') = Len(Rows(t)) + 1
                     /\ SubSeq(Rows(t)', 1, Len(Rows(t))) = Rows(t)
                ELSE Rows(t)' = Rows(t)]_vars

\* two writes to one table returned and left two different rows, in order
C2_Witness ==
    /\ nOk["A"] = 2
    /\ Len(Rows("A")) = 2
    /\ Rows("A")[1].y.v = 7
    /\ Rows("A")[2].y.v = 8

\* C3: on an open reader, each next() on the generator of read() for a
\* table of N rows that has yielded k < N records yields one more, filled
\* from row k (every column read holds the transformed cell of that row),
\* and after N yields the generator returns; it never raises.  A generator
\* that has returned has yielded exactly N records.
C3_ReadYieldsEveryRowInOrder ==
    /\ [](gen.pc = "done" => Len(yielded) = Len(Rows(gen.table)))
    /\ [][(NextStep /\ r_isopen /\ gen.table \in DOMAIN h5file) =>
            LET t    == gen.table
                rows == Rows(t)
                k    == Len(yielded)
            IN  /\ gen'.pc # "raised"
                /\ k < Len(rows) =>
                     /\ gen'.pc = "yielded"
                     /\ Len(yielded') = k + 1
                     /\ SubSeq(yielded', 1, k) = yielded
                     /\ yielded'[k + 1] = target'.vals
                     /\ \A c \in Range(r_cols_to_read'[t]) :
                            yielded'[k + 1][c] =
                                _apply_col_transform(r_transforms', t, c,
                                                     rows[k + 1][c])
                /\ k >= Len(rows) => gen'.pc = "done" /\ yielded' = yielded
         ]_vars

\* C4: close() on the writer or on the reader, on an open or on a closed
\* file, raises nothing, leaves the file closed, and changes neither the
\* tables of the file nor what the object has registered.
C4_CloseIdempotent ==
    /\ [](lastOp.op = "w_close" => lastOp.err = "none" /\ ~w_isopen)
    /\ [](lastOp.op = "r_close" => lastOp.err = "none" /\ ~r_isopen)
    /\ [][lastOp'.op \in {"w_close", "r_close"} =>
            /\ h5file' = h5file
            /\ <<w_schemas, w_tables, w_transforms, w_exclusions>>' =
                   <<w_schemas, w_tables, w_transforms, w_exclusions>>
            /\ <<r_tables, r_cols_to_read, r_transforms>>' =
                   <<r_tables, r_cols_to_read, r_transforms>>]_vars

\* close() was called on a reader whose with block had already closed it
C4_Witness ==
    /\ lastOp.op = "r_close"
    /\ rScope = "exited"
    /\ Len(Rows("A")) > 0

\* C5: a writer or reader whose with block was left, or which was
\* destroyed, has its file closed, whether or not the last call raised.
C5_ScopeExitCloses ==
    /\ wScope \in {"exited", "deleted"} => ~w_isopen
    /\ rScope \in {"exited", "deleted"} => ~r_isopen

\* the with block of the writer was left by the KeyError of a write
C5_Witness ==
    /\ lastOp.op = "w_exit"
    /\ lastOp.col = "KeyError"
    /\ wScope = "exited"

\* C6: no column of the Schema of a table matches a pattern registered for
\* that table with exclude(), and no row of the table holds a cell for a
\* name that matches one.
C6_ExcludedNeverInSchema ==
    \A t \in DOMAIN w_schemas :
        \A p \in Range(w_exclusions[t]) :
            /\ \A c \in DOMAIN w_schemas[t] : ~ReMatch(p, c)
            /\ \A r \in Range(Rows(t)) : \A c \in DOMAIN r : ~ReMatch(p, c)

\* _apply_col_transform returns the value for a column with no transform
\* registered, on the writer and on the reader
UnregisteredIsIdentity ==
    \A t \in TableNames, c \in DOMAIN NameRank, v \in SampleValues :
        /\ c \notin DOMAIN w_transforms[t] =>
               _apply_col_transform(w_transforms, t, c, v) = v
        /\ c \notin DOMAIN r_transforms[t] =>
               _apply_col_transform(r_transforms, t, c, v) = v

\* C7: a call add_column_transform(table, col, fn), on the writer or on the
\* reader, makes _apply_col_transform return fn(value) for that table and
\* column and leaves what it returns for every other table and column as
\* it was; for a column with no transform registered it returns the value
\* (at the start and after every step that changes a registry).
C7_LastRegistrationWins ==
    /\ UnregisteredIsIdentity
    /\ [][(w_transforms' # w_transforms \/ r_transforms' # r_transforms) =>
            UnregisteredIsIdentity']_vars
    /\ [][(nOps' = nOps + 1 /\ lastOp'.op = "w_add_column_transform") =>
            \A t \in TableNames, c \in DOMAIN NameRank, v \in SampleValues :
                _apply_col_transform(w_transforms', t, c, v) =
                    IF t = lastOp'.table /\ c = lastOp'.col
                    THEN CallTr(lastOp'.tr, v)
                    ELSE _apply_col_transform(w_transforms, t, c, v)]_vars
    /\ [][(nOps' = nOps + 1 /\ lastOp'.op = "r_add_column_transform") =>
            \A t \in TableNames, c \in DOMAIN NameRank, v \in SampleValues :
                _apply_col_transform(r_transforms', t, c, v) =
                    IF t = lastOp'.table /\ c = lastOp'.col
                    THEN CallTr(lastOp'.tr, v)
                    ELSE _apply_col_transform(r_transforms, t, c, v)]_vars

\* the caller registered a transform for a column of a table already
\* written, replacing the one the first write had registered
C7_Witness ==
    /\ lastOp.op = "w_add_column_transform"
    /\ lastOp.table = "A" /\ lastOp.col = "x"
    /\ "A" \in DOMAIN w_schemas
    /\ "x" \in DOMAIN w_schemas["A"]
    /\ w_transforms["A"]["x"] = Tr("convert_and_strip", "cm")

\* the field of the containers given to write() that row[colname] takes
\* last: the one of the last container holding it
LastWith(containers, colname) ==
    containers[CHOOSE k \in 1..Len(containers) :
                  /\ InFields(containers[k], colname)
                  /\ \A j \in (k + 1)..Len(containers) :
                         ~InFields(containers[j], colname)]

\* C8: once the caller has registered fn for a column of a table, a write
\* that returns stores fn(value) in that column of its row, and a record
\* the reader yields carries fn(raw cell) in that field.
C8_UserTransformOverrides ==
    /\ (lastOp.op = "write" /\ lastOp.err = "none") =>
          LET t   == lastOp.table
              tab == h5file[t]
              row == tab.rows[Len(tab.rows)]
          IN  \A c \in DOMAIN wUser[t] \cap DOMAIN tab.cols :
                  (\E k \in 1..Len(lastOp.args) : InFields(lastOp.args[k], c))
                  => row[c] = StoreCell(tab.cols[c],
                                  CallTr(wUser[t][c],
                                         LastWith(lastOp.args, c).vals[c]))
    /\ (lastOp.op = "next" /\ gen.pc = "yielded") =>
          LET t == gen.table
          IN  \A c \in DOMAIN rUser[t] \cap Range(r_cols_to_read[t]) :
                  target.vals[c] =
                      CallTr(rUser[t][c], Rows(t)[gen.row_count + 1][c])

\* C9: after the first write to a table that returned, the header holds,
\* for every Quantity field written that is not excluded, <name>_UNIT equal
\* to the required unit of the field (to the unit of the value when none is
\* declared), and CTAPIPE_VERSION equal to the version of the library.
C9_HeaderUnitsAndVersion ==
    (lastOp.op = "write" /\ lastOp.err = "none" /\ nOk[lastOp.table] = 1) =>
        LET t == lastOp.table
        IN  /\ "CTAPIPE_VERSION" \in DOMAIN Attrs(t)
            /\ Attrs(t)["CTAPIPE_VERSION"] = CTAPIPE_VERSION
            /\ \A c \in DOMAIN h5file[t].cols :
                 ((\E k \in 1..Len(lastOp.args) : InFields(lastOp.args[k], c))
                  /\ LastWith(lastOp.args, c).vals[c].kind = "Quantity") =>
                   LET f == LastWith(lastOp.args, c)
                   IN  /\ UnitAttr(c) \in DOMAIN Attrs(t)
                       /\ Attrs(t)[UnitAttr(c)] =
                            IF f.units[c] # "None" THEN f.units[c]
                            ELSE f.vals[c].unit

\* C10: the header of a table is written by the first write call for its
\* name, and no later step changes it.
C10_HeaderWrittenOnceOnFirstWrite ==
    [][\A t \in TableNames :
          /\ (t \notin DOMAIN h5file /\ t \in DOMAIN h5file') =>
                 WriteStep /\ lastOp'.table = t /\ nWrites[t] = 0
          /\ t \in DOMAIN h5file =>
                 t \in DOMAIN h5file' /\ Attrs(t)' = Attrs(t)]_vars

\* container c of the list has the field colname
HasField(containers, colname) ==
    \E k \in 1..Len(containers) : InFields(containers[k], colname)

\* the caller registered no transform for the column, on either side
NoUserTransform(t, c) == c \notin DOMAIN wUser[t] /\ c \notin DOMAIN rUser[t]

\* no record of the first write to t carried the key <c>_UNIT in its meta
NoUnitKeyInMeta(t, c) ==
    \A k \in 1..Len(written[t][1]) :
        UnitAttr(c) \notin DOMAIN written[t][1][k].meta

\* the records written as row i of t declare for the field c the required
\* unit that the records of the first write, which made the column, declare
SameFieldDecl(t, i, c) ==
    /\ HasField(written[t][1], c)
    /\ HasField(written[t][i], c)
    /\ LastWith(written[t][i], c).units[c] =
           LastWith(written[t][1], c).units[c]

\* the generator of read() stands at a yield: the table read, the number
\* of the row yielded (from 1), and the containers written as that row
AtYield == gen.pc = "yielded" /\ r_isopen
YieldRow == gen.row_count + 1

\* C11: a record the reader yields for row i of a table carries, in every
\* quantity field written to row i (a field declared as in the first
\* write, no caller transform on the column, no <field>_UNIT key in the
\* records' metadata), a quantity of the written physical magnitude in the
\* unit the header records as <field>_UNIT.
C11_QuantityRoundTrip ==
    AtYield =>
        LET t  == gen.table
            cs == written[t][YieldRow]
        IN  \A c \in Range(r_cols_to_read[t]) :
                (/\ InFields(target, c)
                 /\ SameFieldDecl(t, YieldRow, c)
                 /\ LastWith(cs, c).vals[c].kind = "Quantity"
                 /\ NoUserTransform(t, c)
                 /\ NoUnitKeyInMeta(t, c))
                =>
                LET q == LastWith(cs, c).vals[c]
                    r == target.vals[c]
                IN  /\ r.kind = "Quantity"
                    /\ r.unit = Attrs(t)[UnitAttr(c)]
                    /\ r.unit \in DOMAIN UnitScale
                    /\ r.v * UnitScale[r.unit] = q.v * UnitScale[q.unit]

\* the columns of the record yielded that hold a field declared with
\* required unit "m" (as in the first write) and written in "cm", with no
\* caller transform registered for them
CmToMetreCols ==
    { c \in Range(r_cols_to_read[gen.table]) :
        /\ InFields(target, c)
        /\ SameFieldDecl(gen.table, YieldRow, c)
        /\ LastWith(written[gen.table][YieldRow], c).units[c] = "m"
        /\ LastWith(written[gen.table][YieldRow], c).vals[c].kind = "Quantity"
        /\ LastWith(written[gen.table][YieldRow], c).vals[c].unit = "cm"
        /\ NoUserTransform(gen.table, c) }

Supported(value) ==
    \/ value.kind \in {"Quantity", "Time"}
    \/ value.kind \in DOMAIN PYTABLES_TYPE_MAP
    \/ value.kind = "ndarray" /\ value.dtype \in DOMAIN PYTABLES_TYPE_MAP

\* the fields of the containers that are supported and not excluded
SupportedFields(table_name, containers) ==
    { c \in UNION { Range(containers[k].fields) : k \in 1..Len(containers) } :
        /\ ~_is_column_excluded(table_name, c)
        /\ Supported(LastWith(containers, c).vals[c]) }

\* C13: the first write to a table on an open writer raises nothing,
\* whatever the kinds of the fields of its records: it creates the table
\* with one column for every supported field that is not excluded, and no
\* column for an unsupported one, and appends the row.
C13_UnsupportedFieldNeverBlocksWrite ==
    [][(WriteStep /\ w_isopen /\ nWrites[lastOp'.table] = 0) =>
          LET t == lastOp'.table
          IN  /\ lastOp'.err = "none"
              /\ t \in DOMAIN h5file'
              /\ DOMAIN h5file'[t].cols = SupportedFields(t, lastOp'.args)
              /\ Len(h5file'[t].rows) = 1
       ]_vars

\* C19: on an open reader, whatever reads came before, once the generator
\* of read(table_name, target) has yielded or returned, the columns mapped
\* for the table are all fields of that target, only fields of that target
\* were assigned, the metadata of that target holds the header attributes
\* of the table, and the k-th record yielded is the one of row k-1.
C19_ReadUsesCurrentTarget ==
    (r_isopen /\ gen.pc \in {"yielded", "done"} /\ gen.table \in r_tables) =>
        /\ Range(r_cols_to_read[gen.table]) \subseteq Range(target.fields)
        /\ DOMAIN target.vals \subseteq Range(target.fields)
        /\ \A a \in DOMAIN Attrs(gen.table) :
               /\ a \in DOMAIN target.meta
               /\ target.meta[a] = Attrs(gen.table)[a]
        /\ gen.pc = "yielded" => Len(yielded) = gen.row_count + 1

\* C14: a next() on the generator of read() on an open reader never raises
\* because the names of the table and of the target differ; when it yields,
\* every field of the target that is a column of the table holds the
\* transformed cell of the row, every other field of the target holds the
\* value it held before the step, and nothing that is no field of the
\* target was assigned.
C14_AssignsIntersectionOfNames ==
    [][(NextStep /\ r_isopen /\ gen.table \in DOMAIN h5file) =>
          LET t   == gen.table
              tab == h5file[t]
          IN  /\ lastOp'.err # "AttributeError"
              /\ gen'.pc = "yielded" =>
                    /\ DOMAIN target'.vals = Range(target.fields)
                    /\ \A f \in Range(target.fields) :
                           target'.vals[f] =
                               IF f \in DOMAIN tab.cols
                               THEN _apply_col_transform(
                                        r_transforms', t, f,
                                        tab.rows[gen'.row_count + 1][f])
                               ELSE target.vals[f]
       ]_vars

\* the columns of the record yielded whose field was a Time in the first
\* write of the table and in the write of the row yielded, with no caller
\* transform registered for them
TimeCols ==
    { c \in Range(r_cols_to_read[gen.table]) :
        /\ InFields(target, c)
        /\ HasField(written[gen.table][1], c)
        /\ LastWith(written[gen.table][1], c).vals[c].kind = "Time"
        /\ HasField(written[gen.table][YieldRow], c)
        /\ LastWith(written[gen.table][YieldRow], c).vals[c].kind = "Time"
        /\ NoUserTransform(gen.table, c) }

\* the cell of a Float64Col that holds the MJD number of the Time written
\* in column c of the row yielded
MjdCell(c) ==
    [kind |-> "float64",
     v |-> LastWith(written[gen.table][YieldRow], c).vals[c].v,
     unit |-> "", dtype |-> ""]

CellOf(cols, transforms, t, c, value) ==
    StoreCell(cols[c], _apply_col_transform(transforms, t, c, value))

\* C16: a write that returns appends a row whose columns are those of the
\* schema; a column that is a field of one of the records holds the
\* transformed value of that field in the last record of the list that has
\* it, every other column holds the default of its type.  A write to a
\* table that exists, on an open writer, raises only when the transform or
\* the store of a field that is a column raises: fields that are no
\* columns are ignored.
C16_RowContent ==
    [][WriteStep =>
          LET t    == lastOp'.table
              args == lastOp'.args
          IN  /\ lastOp'.err = "none" =>
                    LET cols == h5file'[t].cols
                        row  == h5file'[t].rows[Len(h5file'[t].rows)]
                    IN  /\ DOMAIN row = DOMAIN cols
                        /\ \A c \in DOMAIN cols :
                               row[c] =
                                   IF HasField(args, c)
                                   THEN CellOf(cols, w_transforms', t, c,
                                               LastWith(args, c).vals[c])
                                   ELSE ColDefault(cols[c])
              /\ (w_isopen /\ t \in w_tables /\ t \in DOMAIN h5file
                   /\ \A k \in 1..Len(args) :
                         \A c \in Range(args[k].fields) \cap DOMAIN h5file[t].cols :
                             ~IsRaised(CellOf(h5file[t].cols, w_transforms, t,
                                             c, args[k].vals[c])))
                  => lastOp'.err = "none"
       ]_vars

\* a row took y from the later of two records that hold it, and another
\* row of the table took y from a record without the column x, which it
\* left at the default, and without a column for the field a of the record
C16_Witness ==
    /\ Len(written["A"]) = 2
    /\ written["A"][1] = <<EV1, META>>
    /\ written["A"][2] = <<ARR1>>
    /\ DOMAIN h5file["A"].cols = {"x", "y"}
    /\ Rows("A")[1]["y"].v = 1
    /\ Rows("A")[2]["y"].v = 3
    /\ Rows("A")[2]["x"] = ColDefault(h5file["A"].cols["x"])

\* the dictionary d without the keys other than k
Only(d, k) == [j \in DOMAIN d \cap {k} |-> d[j]]

\* the writer and the file as they would be had no table but t been used
Alone(t) ==
    [schemas |-> Only(w_schemas, t), tables |-> w_tables \cap {t},
     transforms |-> [b \in TableNames |->
                       IF b = t THEN w_transforms[b] ELSE EmptyDict],
     file |-> Only(h5file, t)]

\* the step is a call of write, exclude or add_column_transform on the
\* writer
WriterTableStep ==
    /\ nOps' = nOps + 1
    /\ lastOp'.op \in {"write", "exclude", "w_add_column_transform"}

\* what the writer and the file hold for table b is the same before and
\* after the step
TableUnchanged(b) ==
    /\ b \in DOMAIN w_schemas' <=> b \in DOMAIN w_schemas
    /\ b \in DOMAIN w_schemas => w_schemas'[b] = w_schemas[b]
    /\ b \in w_tables' <=> b \in w_tables
    /\ b \in DOMAIN h5file' <=> b \in DOMAIN h5file
    /\ b \in DOMAIN h5file => h5file'[b] = h5file[b]
    /\ w_exclusions'[b] = w_exclusions[b]
    /\ w_transforms'[b] = w_transforms[b]

\* the table t of the file and the error raised are those that the call
\* write(t, containers) leaves in r
SameTableAs(t, r) ==
    /\ lastOp'.err = r.err
    /\ t \in DOMAIN h5file' <=> t \in DOMAIN r.ws.file
    /\ t \in DOMAIN h5file' => h5file'[t] = r.ws.file[t]

\* C17: write, exclude and add_column_transform for a table name leave
\* alone what the writer and the file hold for every other name (whether
\* it is initialized, its schema, header, rows, patterns and transforms),
\* and a write leaves in its table what it would have left had no other
\* table been written, so that writes to two tables in any interleaving
\* leave in each the rows of its own writes.
C17_TablesIndependent ==
    [][WriterTableStep =>
          /\ \A b \in TableNames \ {lastOp'.table} : TableUnchanged(b)
          /\ lastOp'.op = "write" =>
                 SameTableAs(lastOp'.table,
                             write(Alone(lastOp'.table), lastOp'.table,
                                   lastOp'.args))
       ]_vars

\* writes to two tables were interleaved and left in each table the rows
\* of its own writes
C17_Witness ==
    /\ nOps = 3
    /\ lastOp.op = "write" /\ lastOp.table = "A"
    /\ written["A"] = << <<EV2>>, <<EV1>> >>
    /\ written["B"] = << <<EV1>> >>
    /\ Len(Rows("A")) = 2 /\ Rows("A")[1]["x"].v = 1 /\ Rows("A")[2]["x"].v = 2
    /\ Len(Rows("B")) = 1 /\ Rows("B")[1]["x"].v = 2

\* C18: a table name is in the schema registry of the writer exactly when
\* its table is in the file and its handle is registered; a write that
\* raised in the setup of a table leaves the name out of the registry, and
\* no write raises the KeyError of a handle missing in _append_row.
C18_InitializationAtomic ==
    /\ \A t \in TableNames :
           t \in DOMAIN w_schemas <=> (t \in DOMAIN h5file /\ t \in w_tables)
    /\ (lastOp.op = "write" /\ lastOp.table \in DOMAIN w_schemas) =>
           lastOp.err # "KeyError"

====
